---- MODULE Spec2Model ----
(***************************************************************************)
(* Model of src/main.py: CodeAnalyzer.analyze (the fold over the ordered   *)
(* capture sequences of the two tree-sitter queries),                      *)
(* ArchitectureVisualizer (generate_from_structure, _render_graph,         *)
(* generate_from_dot_string), RefactorSuggester.suggest and main.          *)
(*                                                                         *)
(* A capture is the pair (node, name) the query returns; the code reads    *)
(* only node.text and the capture name, so a capture is modelled as        *)
(* [text |-> ..., tag |-> ...].  The two capture sequences of one file are *)
(* the inputs of analyze.  The renderer (graphviz) and the collaborator    *)
(* (the LLM chain) are external: each call's outcome is drawn from the set *)
(* of outcomes it can have.  graphviz's Digraph.attr appends one statement *)
(* to dot.body per call, which is what "if not dot.body" then reads.       *)
(* Construction of CodeAnalyzer, ArchitectureVisualizer and                *)
(* RefactorSuggester is taken to succeed, and chain.invoke to return text. *)
(* The analyze loops are modelled over every ordered capture sequence, as  *)
(* the loop itself guards the case of a callee capture with no current     *)
(* function; the only relation kept between the two queries is that a      *)
(* function name captured by call_query is also captured by func_query.    *)
(***************************************************************************)
EXTENDS Integers, Sequences, FiniteSets

VARIABLES
    pc,            \* position in main(): start, analyzed, before_done, suggested, printed, done, exit, crash
    fileFound,     \* open(file_path) succeeds (FALSE: FileNotFoundError)
    defCaptures,   \* result of _execute_query(tree, func_query)
    callCaptures,  \* result of _execute_query(tree, call_query)
    structure,     \* code_structure returned by analyze (None_ before / on failure)
    dotBody,       \* dot.body of the Digraph built by generate_from_structure
    renders,       \* the graph.render calls made so far, each with its outcome
    response,      \* raw text returned by self.chain.invoke (NotInvoked before)
    suggestion,    \* value returned by suggest()
    dotArg,        \* argument of generate_from_dot_string (NoArg: never called)
    output         \* the set of reports printed so far

vars == <<pc, fileFound, defCaptures, callCaptures, structure, dotBody,
          renders, response, suggestion, dotArg, output>>

(***************************************************************************)
(* Bounds of the model.                                                    *)
(***************************************************************************)
\* longest definition-query capture sequence explored for analyze
MaxFuncs == 2
\* longest call-query capture sequence explored for analyze
MaxCaps == 4
\* the same two lengths for the files fed through the whole of main()
MaxMainFuncs == 1
MaxMainCaps == 1

\* identifiers that occur as function definitions in the analysed files
DefNames == {"a", "b"}
\* identifiers that occur as call targets (foo is never defined)
CalleeNames == DefNames \cup {"foo"}
\* identifiers that occur as the attribute of an attribute call (obj.b())
MethodNames == {"b"}

SeqsUpTo(S, n) == UNION {[1..k -> S] : k \in 0..n}

Range(s) == {s[i] : i \in DOMAIN s}

(***************************************************************************)
(* Captures.                                                               *)
(***************************************************************************)
FunctionNameTag == "function.name"
FunctionCallTag == "function.call"
MethodNameTag == "method.name"
CallTag == "call"

\* captures func_query can return: only @function.name
DefCaptureSet == {[text |-> n, tag |-> FunctionNameTag] : n \in DefNames}

\* captures call_query can return: @function.name, @method.name, @function.call, @call
CallCaptureSet ==
    {[text |-> n, tag |-> FunctionNameTag] : n \in DefNames}
    \cup {[text |-> n, tag |-> FunctionCallTag] : n \in CalleeNames}
    \cup {[text |-> n, tag |-> MethodNameTag] : n \in MethodNames}
    \cup {[text |-> "call_expr", tag |-> CallTag]}

\* both queries run over the same tree: a function_definition name captured by
\* call_query is also captured by func_query
SameTree(defs, calls) ==
    \A i \in DOMAIN calls :
        calls[i].tag = FunctionNameTag =>
            \E j \in DOMAIN defs : defs[j].text = calls[i].text

(***************************************************************************)
(* Python values.                                                          *)
(***************************************************************************)
None_ == [none |-> TRUE]
NoFunc == "<None>"

\* dict with insertion order: a sequence of [name, calls] with distinct names
HasKey(fs, k) == \E i \in DOMAIN fs : fs[i].name = k

KeyIndex(fs, k) == CHOOSE i \in DOMAIN fs : fs[i].name = k

Keys(fs) == {fs[i].name : i \in DOMAIN fs}

CallsOf(fs, k) == fs[KeyIndex(fs, k)].calls

\* d[k] = {"calls": v}: an existing key keeps its position
DictSet(fs, k, v) ==
    IF HasKey(fs, k)
    THEN [fs EXCEPT ![KeyIndex(fs, k)] = [name |-> k, calls |-> v]]
    ELSE Append(fs, [name |-> k, calls |-> v])

(***************************************************************************)
(* CodeAnalyzer.analyze.                                                   *)
(***************************************************************************)
\* structure literal of analyze
EmptyStructure == [functions |-> <<>>, classes |-> <<>>, global_calls |-> <<>>]

\* first loop: structure["functions"][func_name] = {"calls": []}
RECURSIVE RegisterFunctions(_, _, _)
RegisterFunctions(caps, i, fs) ==
    IF i > Len(caps) THEN fs
    ELSE IF caps[i].tag = FunctionNameTag
         THEN RegisterFunctions(caps, i + 1, DictSet(fs, caps[i].text, <<>>))
         ELSE RegisterFunctions(caps, i + 1, fs)

\* AppendCall with set semantics: a name already recorded is not recorded again
AppendCallOnce(fs, cur, call_name) ==
    IF HasKey(fs, cur) /\ call_name \notin Range(fs[KeyIndex(fs, cur)].calls)
    THEN [fs EXCEPT ![KeyIndex(fs, cur)].calls = Append(@, call_name)]
    ELSE fs

\* AppendCall assigning instead of appending
AppendCallReplace(fs, cur, call_name) ==
    IF HasKey(fs, cur)
    THEN [fs EXCEPT ![KeyIndex(fs, cur)].calls = <<call_name>>]
    ELSE fs

\* structure["functions"][current_func]["calls"].append(call_name), guarded by
\* current_func in structure["functions"]
AppendCall(fs, cur, call_name) ==
    IF HasKey(fs, cur)
    THEN [fs EXCEPT ![KeyIndex(fs, cur)].calls = Append(@, call_name)]
    ELSE fs

\* a callee capture is recorded only while current_func is set (truthy)
IsRecorded(tag, cur) ==
    tag \in {FunctionCallTag, MethodNameTag} /\ cur # NoFunc

\* second loop: the current_func cursor over the call-query captures
RECURSIVE AttributeCalls(_, _, _, _)
AttributeCalls(caps, i, cur, st) ==
    IF i > Len(caps) THEN st
    ELSE IF caps[i].tag = FunctionNameTag
         THEN AttributeCalls(caps, i + 1, caps[i].text, st)
         ELSE IF IsRecorded(caps[i].tag, cur)
              THEN AttributeCalls(caps, i + 1, cur,
                       [st EXCEPT !.functions = AppendCall(@, cur, caps[i].text)])
              ELSE AttributeCalls(caps, i + 1, cur, st)

AnalyzeResult(defs, calls) ==
    AttributeCalls(calls, 1, NoFunc,
        [EmptyStructure EXCEPT !.functions = RegisterFunctions(defs, 1, <<>>)])

\* main(): code_structure = analyzer.analyze(file_path); if not code_structure: return
Analyze ==
    /\ pc = "start"
    /\ IF fileFound
       THEN /\ structure' = AnalyzeResult(defCaptures, callCaptures)
            /\ output' = output \cup {<<"analyze", "analysis_complete">>}
            /\ pc' = "analyzed"
       ELSE /\ structure' = None_
            /\ output' = output \cup {<<"analyze", "file_not_found">>}
            /\ pc' = "done"
    /\ UNCHANGED <<fileFound, defCaptures, callCaptures, dotBody, renders,
                   response, suggestion, dotArg>>

(***************************************************************************)
(* ArchitectureVisualizer.                                                 *)
(***************************************************************************)
\* what graph.render can do: succeed, raise ExecutableNotFound, raise another error
RenderOutcomes == {"ok", "not_found", "rejected"}

\* _render_graph without its "except Exception" clause
RenderGraphNoCatch(outcome) ==
    CASE outcome = "ok" -> "none"
      [] outcome = "not_found" -> "SystemExit"
      [] OTHER -> "Exception"

\* _render_graph: what leaves the try/except around graph.render
\* ("none": returns normally; sys.exit(1) raises SystemExit)
RenderGraph(outcome) ==
    CASE outcome = "ok" -> "none"
      [] outcome = "not_found" -> "SystemExit"
      [] OTHER -> "none"

\* what _render_graph prints for an outcome
RenderReport(which, outcome) ==
    CASE outcome = "ok" -> {<<which, "diagram_saved">>}
      [] outcome = "not_found" -> {<<which, "install_graphviz">>}
      [] OTHER -> {<<which, "render_error">>}

\* dot.attr('node', ...) and dot.attr(label=...): each appends one statement to dot.body
DigraphAttrLines ==
    << [kind |-> "attr", tail |-> "node", head |-> ""],
       [kind |-> "attr", tail |-> "graph", head |-> ""] >>

\* EdgeDrawn without the membership test
EdgeDrawnAlways(call, fs) == TRUE

\* if call in code_structure['functions']
EdgeDrawn(call, fs) == HasKey(fs, call)

\* inner loop: dot.edge(func, call) for each element of details['calls']
RECURSIVE EdgeLines(_, _, _, _)
EdgeLines(func, calls, i, fs) ==
    IF i > Len(calls) THEN <<>>
    ELSE (IF EdgeDrawn(calls[i], fs)
          THEN <<[kind |-> "edge", tail |-> func, head |-> calls[i]]>>
          ELSE <<>>) \o EdgeLines(func, calls, i + 1, fs)

\* outer loop: dot.node(func, f"{func}()") then the function's edges
RECURSIVE FunctionLines(_, _)
FunctionLines(fs, i) ==
    IF i > Len(fs) THEN <<>>
    ELSE <<[kind |-> "node", tail |-> fs[i].name, head |-> ""]>>
         \o EdgeLines(fs[i].name, fs[i].calls, 1, fs)
         \o FunctionLines(fs, i + 1)

\* dot.body when generate_from_structure reaches "if not dot.body"
BuildBody(st) == DigraphAttrLines \o FunctionLines(st.functions, 1)

\* how main() continues after a call that ended with `raised`
MainAfter(raised, next) ==
    CASE raised = "none" -> next
      [] raised = "SystemExit" -> "exit"
      [] OTHER -> "crash"

\* main(): visualizer.generate_from_structure(code_structure, f"{target_name}_before")
GenerateFromStructure ==
    /\ pc = "analyzed"
    /\ dotBody' = BuildBody(structure)
    /\ IF Len(dotBody') = 0
       THEN /\ output' = output \cup {<<"before", "nothing_to_draw">>}
            /\ renders' = renders
            /\ pc' = "before_done"
       ELSE \E o \in RenderOutcomes :
            /\ renders' = Append(renders, [which |-> "before", outcome |-> o])
            /\ output' = output \cup RenderReport("before", o)
            /\ pc' = MainAfter(RenderGraph(o), "before_done")
    /\ UNCHANGED <<fileFound, defCaptures, callCaptures, structure,
                   response, suggestion, dotArg>>

\* DotStringHandler with a bare "except:" that also catches SystemExit
DotStringHandlerBare(raised) == "none"

\* generate_from_dot_string: the try/except Exception around Source + _render_graph
DotStringHandler(raised) ==
    IF raised = "Exception" THEN "none" ELSE raised

(***************************************************************************)
(* RefactorSuggester.suggest and the rest of main().                       *)
(***************************************************************************)
\* JSON field values the collaborator can send: a non-empty string, an empty
\* string, a list of strings, a number, or no such field
Absent == "absent"

\* a response text, by what json.loads makes of it
Value(type, truthy, summary, reasoning, dot, extra) ==
    [type |-> type, truthy |-> truthy, summary |-> summary,
     reasoning |-> reasoning, new_architecture_dot |-> dot, extra |-> extra]

Scalar(type, truthy) == Value(type, truthy, Absent, Absent, Absent, Absent)

PyNone == Scalar("None", FALSE)

NotInvoked == Scalar("not_invoked", FALSE)

\* truthiness of a field value
Truthy(kind) == kind \in {"str", "list", "num"}

Objects ==
    {Value("object",
           s # Absent \/ r # Absent \/ d # Absent \/ e # Absent,
           s, r, d, e) :
        s \in {"str", "num", Absent},
        r \in {"str", "list", "num", Absent},
        d \in {"str", "empty", "num", Absent},
        e \in {"str", Absent}}

Responses ==
    {Scalar("not_json", FALSE), Scalar("null", FALSE)}
    \cup {Scalar(t, b) : t \in {"number", "string", "list", "bool"}, b \in BOOLEAN}
    \cup Objects

\* json.loads(clean_response), None on JSONDecodeError
ParseResponse(r) ==
    CASE r.type = "not_json" -> PyNone
      [] r.type = "null" -> PyNone
      [] OTHER -> r

\* suggestion.get(key, default)
Get(s, key, default) == IF s[key] = Absent THEN default ELSE s[key]

\* main() lines 237-251 on the value suggest() returned
PrintStep(s) ==
    IF ~s.truthy THEN "done"
    ELSE IF s.type # "object" THEN "crash"
    ELSE "printed"

\* main(): suggestion = suggester.suggest(code_structure), then the textual suggestion
Suggest ==
    /\ pc = "before_done"
    /\ \E r \in Responses :
        /\ response' = r
        /\ suggestion' = ParseResponse(r)
        /\ pc' = PrintStep(suggestion')
        /\ output' = output
              \cup (IF r.type = "not_json" THEN {<<"suggest", "decode_error">>} ELSE {})
              \cup (CASE pc' = "done" -> {<<"main", "no_valid_suggestion">>}
                      [] pc' = "printed" ->
                            {<<"main", "suggestion_printed">>,
                             <<"summary", Get(suggestion', "summary", "N/A")>>,
                             <<"reasoning", Get(suggestion', "reasoning", "list")>>}
                      [] OTHER -> {})
    /\ UNCHANGED <<fileFound, defCaptures, callCaptures, structure, dotBody,
                   renders, dotArg>>

\* main(): dot_string = suggestion.get('new_architecture_dot') and the 'after' diagram
AfterDiagram ==
    /\ pc = "printed"
    /\ LET dot_string == Get(suggestion, "new_architecture_dot", Absent) IN
       IF Truthy(dot_string)
       THEN \E o \in RenderOutcomes :
            /\ dotArg' = dot_string
            /\ renders' = Append(renders, [which |-> "after", outcome |-> o])
            /\ output' = output \cup RenderReport("after", o)
            /\ pc' = MainAfter(DotStringHandler(RenderGraph(o)), "done")
       ELSE /\ output' = output \cup {<<"main", "warning_no_dot">>}
            /\ pc' = "done"
            /\ UNCHANGED <<renders, dotArg>>
    /\ UNCHANGED <<fileFound, defCaptures, callCaptures, structure, dotBody,
                   response, suggestion>>

(***************************************************************************)
(* Specifications.                                                         *)
(***************************************************************************)
InitRun ==
    /\ pc = "start"
    /\ structure = None_
    /\ dotBody = <<>>
    /\ renders = <<>>
    /\ response = NotInvoked
    /\ suggestion = PyNone
    /\ dotArg = "not_called"
    /\ output = {}

Files(maxFuncs, maxCaps) ==
    {f \in [found : BOOLEAN,
            defs : SeqsUpTo(DefCaptureSet, maxFuncs),
            calls : SeqsUpTo(CallCaptureSet, maxCaps)] :
        /\ SameTree(f.defs, f.calls)
        /\ (~f.found => f.defs = <<>> /\ f.calls = <<>>)}

\* one run of main() on one file
Init ==
    /\ \E f \in Files(MaxMainFuncs, MaxMainCaps) :
        /\ fileFound = f.found
        /\ defCaptures = f.defs
        /\ callCaptures = f.calls
    /\ InitRun

Next == Analyze \/ GenerateFromStructure \/ Suggest \/ AfterDiagram

Spec == Init /\ [][Next]_vars

\* analysis and the 'before' diagram alone, over longer capture sequences
InitAnalyze ==
    /\ \E f \in Files(MaxFuncs, MaxCaps) :
        /\ fileFound = f.found
        /\ defCaptures = f.defs
        /\ callCaptures = f.calls
    /\ InitRun

NextAnalyze == Analyze \/ GenerateFromStructure

SpecAnalyze == InitAnalyze /\ [][NextAnalyze]_vars

(***************************************************************************)
(* Vocabulary of the properties.                                           *)
(***************************************************************************)
Max(S) == CHOOSE x \in S : \A y \in S : y <= x

Analyzed == fileFound /\ pc # "start"

BeforeStepDone == fileFound /\ pc \notin {"start", "analyzed"}

Terminal == pc \in {"done", "exit", "crash"}

IsCallee(c) == c.tag \in {FunctionCallTag, MethodNameTag}

\* index of the most recent function-name capture before position i (0: none)
OwnerIdx(caps, i) ==
    LET P == {j \in 1..(i - 1) : caps[j].tag = FunctionNameTag}
    IN IF P = {} THEN 0 ELSE Max(P)

\* positions of the callee captures attributed to function name f
OwnedBy(caps, f) ==
    {i \in DOMAIN caps :
        IsCallee(caps[i]) /\ OwnerIdx(caps, i) # 0 /\ caps[OwnerIdx(caps, i)].text = f}

\* positions of the callee captures that precede every function-name capture
Leading(caps) == {i \in DOMAIN caps : IsCallee(caps[i]) /\ OwnerIdx(caps, i) = 0}

\* positions of the callee captures under the function-name capture at position j
Segment(caps, j) == {i \in DOMAIN caps : IsCallee(caps[i]) /\ OwnerIdx(caps, i) = j}

\* s lists the texts of the captures at the positions I, in capture order
ListsCaptures(s, caps, I) ==
    /\ Len(s) = Cardinality(I)
    /\ \A i \in I : s[Cardinality({j \in I : j <= i})] = caps[i].text

EdgeLine(a, b) == [kind |-> "edge", tail |-> a, head |-> b]

EdgeCount(a, b) == Cardinality({i \in DOMAIN dotBody : dotBody[i] = EdgeLine(a, b)})

Mentions(line, c) == line.kind = "edge" /\ (line.tail = c \/ line.head = c)

Printed == <<"main", "suggestion_printed">> \in output

\* the required shape: exactly summary, reasoning and new_architecture_dot, each
\* of its type
Conforming(r) ==
    /\ r.type = "object"
    /\ r.summary = "str"
    /\ r.reasoning \in {"str", "list"}
    /\ r.new_architecture_dot = "str"
    /\ r.extra = Absent

Invoked == response # NotInvoked

RenderAt(i, which, outcome) ==
    /\ Len(renders) >= i
    /\ renders[i] = [which |-> which, outcome |-> outcome]

(***************************************************************************)
(* C1: an empty functions mapping makes generate_from_structure emit no    *)
(* node, report that there is nothing to draw and never call the renderer. *)
(***************************************************************************)
C1_NoRenderWithoutFunctions ==
    (BeforeStepDone /\ structure.functions = <<>>) =>
        /\ \A i \in DOMAIN dotBody : dotBody[i].kind # "node"
        /\ <<"before", "nothing_to_draw">> \in output
        /\ renders = <<>>

(***************************************************************************)
(* C2: when A's calls contain B (both defined in the file) one or more     *)
(* times, the graph description has exactly one edge A->B.                 *)
(***************************************************************************)
C2_ExactlyOneEdge ==
    BeforeStepDone =>
        \A a \in Keys(structure.functions), b \in Keys(structure.functions) :
            (a # b /\ b \in Range(CallsOf(structure.functions, a))) => EdgeCount(a, b) = 1

(***************************************************************************)
(* C3: for every callee name c captured under function A, an edge A->c is  *)
(* emitted only if c is a key of functions; when c is no key, no edge      *)
(* mentions c, and c is still in A's calls after the diagram is generated. *)
(***************************************************************************)
C3_EdgesOnlyToDefined ==
    BeforeStepDone =>
        /\ \A i \in DOMAIN dotBody :
              dotBody[i].kind = "edge" =>
                  /\ dotBody[i].head \in Keys(structure.functions)
                  /\ dotBody[i].tail \in Keys(structure.functions)
        /\ \A a \in DefNames : \A i \in OwnedBy(callCaptures, a) :
              LET c == callCaptures[i].text IN
              /\ c \in Keys(structure.functions) => EdgeCount(a, c) >= 1
              /\ c \notin Keys(structure.functions) =>
                    /\ \A k \in DOMAIN dotBody : ~Mentions(dotBody[k], c)
                    /\ c \in Range(CallsOf(structure.functions, a))

C3_Witness ==
    /\ BeforeStepDone
    /\ \E a \in DefNames : \E i \in OwnedBy(callCaptures, a), j \in OwnedBy(callCaptures, a) :
          /\ callCaptures[i].text \notin Keys(structure.functions)
          /\ callCaptures[j].text \in Keys(structure.functions)
          /\ EdgeCount(a, callCaptures[j].text) >= 1

(***************************************************************************)
(* C4: every callee capture that precedes any function-name capture is     *)
(* appended, in order, to global_calls of the resulting CodeStructure.     *)
(***************************************************************************)
C4_LeadingCallsInGlobalCalls ==
    Analyzed => ListsCaptures(structure.global_calls, callCaptures, Leading(callCaptures))

(***************************************************************************)
(* C9: each callee capture is attributed to the function named by the most *)
(* recent preceding function-name capture, appended at the end of that     *)
(* function's calls, in capture order and with duplicates kept.            *)
(***************************************************************************)
C9_CallsFollowCursor ==
    Analyzed =>
        /\ Keys(structure.functions) = {defCaptures[i].text : i \in DOMAIN defCaptures}
        /\ \A f \in Keys(structure.functions) :
              ListsCaptures(CallsOf(structure.functions, f), callCaptures,
                            OwnedBy(callCaptures, f))

\* a call after a nested definition goes to the inner function, and a repeated
\* call is recorded twice
C9_Witness ==
    /\ Analyzed
    /\ \E i \in DOMAIN callCaptures, j \in DOMAIN callCaptures :
          /\ i < j
          /\ callCaptures[i].tag = FunctionNameTag
          /\ callCaptures[j].tag = FunctionNameTag
          /\ callCaptures[i].text # callCaptures[j].text
          /\ Segment(callCaptures, i) # {}
          /\ Segment(callCaptures, j) # {}
          /\ Len(CallsOf(structure.functions, callCaptures[i].text))
               = Cardinality(Segment(callCaptures, i))
          /\ Len(CallsOf(structure.functions, callCaptures[j].text))
               = Cardinality(Segment(callCaptures, j))

\* f is defined twice, and both definitions have calls captured under them
DefinedTwice(f) ==
    /\ Cardinality({i \in DOMAIN defCaptures : defCaptures[i].text = f}) >= 2
    /\ \E i \in DOMAIN callCaptures, j \in DOMAIN callCaptures :
          /\ i < j
          /\ callCaptures[i] = [text |-> f, tag |-> FunctionNameTag]
          /\ callCaptures[j] = [text |-> f, tag |-> FunctionNameTag]
          /\ Segment(callCaptures, i) # {}
          /\ Segment(callCaptures, j) # {}

\* position of the last function-name capture of f
LastDef(f) ==
    Max({i \in DOMAIN callCaptures : callCaptures[i] = [text |-> f, tag |-> FunctionNameTag]})

(***************************************************************************)
(* C10 as stated: when two definitions share a name, the name's calls hold *)
(* only the calls captured under the later definition.                     *)
(***************************************************************************)
C10_LaterDefinitionOverwrites ==
    Analyzed =>
        \A f \in DefNames :
            DefinedTwice(f) =>
                ListsCaptures(CallsOf(structure.functions, f), callCaptures,
                              Segment(callCaptures, LastDef(f)))

(***************************************************************************)
(* C10 amended: when two definitions share a name they share one entry,    *)
(* whose calls are the calls captured under each of the same-named         *)
(* definitions, one definition after the other in capture order; the calls *)
(* of the earlier definition are kept.                                     *)
(***************************************************************************)
C10_SameNameDefinitionsMerge ==
    Analyzed =>
        \A f \in DefNames :
            DefinedTwice(f) =>
                LET fs == structure.functions
                    D == {j \in DOMAIN callCaptures :
                             callCaptures[j] = [text |-> f, tag |-> FunctionNameTag]}
                    Before(j) == UNION {Segment(callCaptures, d) : d \in {e \in D : e < j}}
                IN /\ Cardinality({i \in DOMAIN fs : fs[i].name = f}) = 1
                   /\ Len(CallsOf(fs, f))
                        = Cardinality(UNION {Segment(callCaptures, d) : d \in D})
                   /\ \A j \in D : \A i \in Segment(callCaptures, j) :
                        CallsOf(fs, f)[Cardinality(Before(j))
                            + Cardinality({k \in Segment(callCaptures, j) : k <= i})]
                          = callCaptures[i].text

C10_Witness ==
    /\ Analyzed
    /\ \E f \in DefNames :
          /\ DefinedTwice(f)
          /\ Len(CallsOf(structure.functions, f)) >= 2

(***************************************************************************)
(* C5: a collaborator response that does not have the required shape is    *)
(* rejected: no suggestion is printed from it and no part of it reaches    *)
(* generate_from_dot_string.                                               *)
(***************************************************************************)
C5_BadShapeRejected ==
    (Invoked /\ ~Conforming(response)) => (~Printed /\ dotArg = "not_called")

(***************************************************************************)
(* C6: for a response that is not valid structured data of the required    *)
(* schema, main does not crash: it ends normally, attempts no 'after'      *)
(* render, and the 'before' step is unaffected.                            *)
(***************************************************************************)
C6_BadResponseNoCrash ==
    (Invoked /\ ~Conforming(response)) =>
        /\ pc # "crash"
        /\ Len(renders) = 1
        /\ renders[1].which = "before"
        /\ (Terminal => pc = "done")

(***************************************************************************)
(* C7: an executable-not-found during any render call aborts the run at    *)
(* that point: nothing later executes (after a failed 'before' render the  *)
(* collaborator is never invoked and no 'after' render is attempted) and   *)
(* no enclosing handler swallows the abort.                                *)
(***************************************************************************)
C7_RendererUnavailableAborts ==
    \A i \in DOMAIN renders :
        renders[i].outcome = "not_found" =>
            /\ pc = "exit"
            /\ i = Len(renders)
            /\ renders[i].which = "before" =>
                  (~Invoked /\ ~Printed /\ dotArg = "not_called")

C7_Witness ==
    /\ RenderAt(2, "after", "not_found")
    /\ pc = "exit"
    /\ Printed

(***************************************************************************)
(* C8: a render the renderer rejects (not executable-not-found) skips only *)
(* that step: after a rejected 'before' render the collaborator is still   *)
(* invoked, the suggestion it gives is still printed and the 'after'       *)
(* render still attempted; after a rejected 'after' render main returns    *)
(* normally.                                                               *)
(***************************************************************************)
C8_RejectedRenderContinues ==
    /\ (RenderAt(1, "before", "rejected") /\ ~Invoked) => pc = "before_done"
    /\ (RenderAt(1, "before", "rejected") /\ Terminal) =>
          /\ Invoked
          /\ (suggestion.truthy /\ suggestion.type = "object") =>
                /\ Printed
                /\ Truthy(suggestion.new_architecture_dot) =>
                      (Len(renders) = 2 /\ renders[2].which = "after")
    /\ RenderAt(2, "after", "rejected") => pc = "done"

C8_Witness ==
    /\ RenderAt(1, "before", "rejected")
    /\ RenderAt(2, "after", "rejected")
    /\ Printed
    /\ pc = "done"

====
